---- MODULE Spec2Model ----
(***************************************************************************)
(* Model of packages/falcon/scripts/generate_args.py: the attestation      *)
(* builder (generate_attestation, generate_attestations), the serializer   *)
(* (format_args) and the script entry point.                               *)
(*                                                                         *)
(* Text (the hex strings, the JSON document, the messages) is modelled as  *)
(* sequences of one-character strings, so that formatting and parsing are  *)
(* real conversions.  Byte strings are sequences of integers in 0..255.    *)
(* The signing library (SecretKey, sign, hash_to_point, decompress) is not *)
(* part of the script: each call is a nondeterministic choice over a small *)
(* set of results, or an exception.                                        *)
(***************************************************************************)
EXTENDS Integers, Sequences, FiniteSets, TLC

VARIABLES
    pc,              \* position of the script
    n,               \* args.n
    num_signatures,  \* args.num_signatures
    sk,              \* the SecretKey of generate_attestations
    keys,            \* number of SecretKey objects constructed so far
    i,               \* loop index of the list comprehension
    attestations,    \* the list under construction / returned
    message,         \* locals of the running generate_attestation
    signature,
    salt,
    enc_s,
    s1,
    msg_point,
    calls,           \* library calls of the running generate_attestation
    signed,          \* every message handed to sk.sign, in call order
    built,           \* history: per returned record, its message and raw s1
    stdout,          \* lines printed
    error,           \* exception that ended the run, or "none"
    fa_pc,           \* a direct call format_args(fa_args, fa_n)
    fa_args,
    fa_n,
    fa_ret,
    fb_args,         \* a second direct call format_args(fb_args, fb_n)
    fb_n,
    fb_ret

script_vars == <<pc, n, num_signatures, sk, keys, i, attestations, message,
                 signature, salt, enc_s, s1, msg_point, calls, signed, built,
                 stdout, error>>
call_vars == <<fa_pc, fa_args, fa_n, fa_ret, fb_args, fb_n, fb_ret>>
vars == <<script_vars, call_vars>>

-----------------------------------------------------------------------------
(* Bounds of the model *)

\* largest --num_signatures explored
MaxSigs == 2
\* longest compressed payload a signature carries
MaxPayload == 1
\* header and salt lengths: the library's HEAD_LEN and SALT_LEN, whose values
\* are not set in the script; the script must be right for any values
HEAD_LEN == 1
SALT_LEN == 2
\* largest record count of a direct format_args call
MaxRecs == 2
\* largest record count of each of two compared format_args calls
MaxPairRecs == 2

Q == 12289

\* --n values explored
Dims == {1, 2}

-----------------------------------------------------------------------------
(* Python primitives *)

Min(a, b) == IF a < b THEN a ELSE b

\* C-style remainder: the sign follows the dividend
TruncMod(x, m) == IF x >= 0 THEN x % m ELSE -((-x) % m)

\* Python's x % m for m > 0: floor modulo, the sign follows the divisor
PyMod(x, m) == x - m * (x \div m)

\* Python's seq[lo:hi] for 0 <= lo <= hi: out-of-range bounds are clamped
PySlice(seq, lo, hi) == SubSeq(seq, Min(lo, Len(seq)) + 1, Min(hi, Len(seq)))

\* Python's seq[lo:]
PySliceFrom(seq, lo) == SubSeq(seq, Min(lo, Len(seq)) + 1, Len(seq))

HexDigit == <<"0", "1", "2", "3", "4", "5", "6", "7",
              "8", "9", "a", "b", "c", "d", "e", "f">>

RECURSIVE HexDigits(_)
HexDigits(x) ==
    IF x < 16 THEN <<HexDigit[x + 1]>>
    ELSE HexDigits(x \div 16) \o <<HexDigit[(x % 16) + 1]>>

\* '0x%02x' % (x & 0xff): two digits of the low byte
hex_byte(x) == <<"0", "x", HexDigit[((x % 256) \div 16) + 1], HexDigit[(x % 16) + 1]>>

\* Python's hex(x): "0x.." and, for a negative x, "-0x.." of its magnitude
hex(x) ==
    IF x >= 0 THEN <<"0", "x">> \o HexDigits(x)
    ELSE <<"-", "0", "x">> \o HexDigits(-x)

RECURSIVE DecDigits(_)
DecDigits(x) ==
    IF x < 10 THEN <<HexDigit[x + 1]>>
    ELSE DecDigits(x \div 10) \o <<HexDigit[(x % 10) + 1]>>

\* f'message #{i}'.encode()
Message(k) == <<"m", "e", "s", "s", "a", "g", "e", " ", "#">> \o DecDigits(k)

RECURSIVE JsonItems(_)
JsonItems(strs) ==
    IF strs = <<>> THEN <<>>
    ELSE <<"\"">> \o Head(strs) \o <<"\"">>
         \o (IF Tail(strs) = <<>> THEN <<>>
             ELSE <<",", " ">> \o JsonItems(Tail(strs)))

\* json.dumps of a list of strings that need no escaping
JsonDumps(strs) == <<"[">> \o JsonItems(strs) \o <<"]">>

-----------------------------------------------------------------------------
(* format_args *)

\* the vectors without their length fields
SectionNoLens(arg) == arg.s1 \o arg.pk \o arg.msg_point

\* an empty vector contributes nothing, not even its length
SectionSkipEmpty(arg) ==
    (IF arg.s1 = <<>> THEN <<>> ELSE <<Len(arg.s1)>> \o arg.s1)
    \o (IF arg.pk = <<>> THEN <<>> ELSE <<Len(arg.pk)>> \o arg.pk)
    \o (IF arg.msg_point = <<>> THEN <<>> ELSE <<Len(arg.msg_point)>> \o arg.msg_point)

\* len(arg['s1']), *arg['s1'], len(arg['pk']), *arg['pk'], ...
Section(arg) ==
    <<Len(arg.s1)>> \o arg.s1
    \o <<Len(arg.pk)>> \o arg.pk
    \o <<Len(arg.msg_point)>> \o arg.msg_point

RECURSIVE Sections(_)
Sections(args) ==
    IF args = <<>> THEN <<>>
    ELSE Section(Head(args)) \o Sections(Tail(args))

\* the dimension written first and the record count last
SerializedDimFirst(args, dim) == <<dim>> \o Sections(args) \o <<Len(args)>>

\* [len(args)], the sections, then n
Serialized(args, dim) == <<Len(args)>> \o Sections(args) \o <<dim>>

format_args(args, dim) ==
    LET serialized == Serialized(args, dim)
    IN JsonDumps([k \in 1..Len(serialized) |-> hex(serialized[k])])

-----------------------------------------------------------------------------
(* The signing library, as the script sees it *)

\* byte strings sk.sign may return: every prefix, the empty one included, of
\* two strings whose bytes all differ
SignaturesOut ==
    {[j \in 1..len |-> start + j] :
        start \in {16, 200}, len \in 0..(HEAD_LEN + SALT_LEN + MaxPayload)}

\* coefficients decompress may yield: below -Q, zero, above Q
DecompressVals == {-Q - 1, 0, Q + 1}

\* what decompress(enc_s, slen, dim) may return
DecompressOut(dim) == [1..dim -> DecompressVals]

\* what sk.hash_to_point(message, salt) may return
HashToPointOut(dim) == {[j \in 1..dim |-> 3 * j], [j \in 1..dim |-> Q - j]}

\* SecretKey(dim): its public key h and its signature byte length
SecretKeys(dim) ==
    {[n |-> dim, h |-> h, sig_bytelen |-> HEAD_LEN + SALT_LEN + MaxPayload] :
        h \in {[j \in 1..dim |-> 7 * j]}}

NoKey == [n |-> 0, h |-> <<>>, sig_bytelen |-> 0]

-----------------------------------------------------------------------------
(* generate_attestation, line by line *)

\* salt = signature[:SALT_LEN], the header offset forgotten
SaltNoHeader(sig) == PySlice(sig, 0, SALT_LEN)

\* salt = signature[HEAD_LEN:HEAD_LEN + SALT_LEN]
SaltOf(sig) == PySlice(sig, HEAD_LEN, HEAD_LEN + SALT_LEN)

\* enc_s = signature[HEAD_LEN + SALT_LEN:]
EncOf(sig) == PySliceFrom(sig, HEAD_LEN + SALT_LEN)

\* [x rem Q for x in s1] with the remainder of C
ReduceTrunc(vec) == [k \in 1..Len(vec) |-> TruncMod(vec[k], Q)]

\* [x % Q for x in s1]
Reduce(vec) == [k \in 1..Len(vec) |-> PyMod(vec[k], Q)]

\* the returned dict
Record(key, raw, point) == [s1 |-> Reduce(raw), pk |-> key.h, msg_point |-> point]

\* a list that grows at the front
Prepend(list, rec) == <<rec>> \o list

\* the list comprehension collects the results in iteration order
Collect(list, rec) == Append(list, rec)

NoLocals ==
    /\ message' = <<>>
    /\ signature' = <<>>
    /\ salt' = <<>>
    /\ enc_s' = <<>>
    /\ s1' = <<>>
    /\ msg_point' = <<>>

\* a failed attestation is dropped and the loop goes on
Swallow(e) ==
    /\ pc' = "loop"
    /\ i' = i + 1
    /\ NoLocals
    /\ UNCHANGED <<call_vars, error, n, num_signatures, sk, keys, attestations, calls, built, stdout>>

\* an exception of a library call: nothing in the script catches it, so it
\* leaves generate_attestation, the comprehension and the script
Propagate(e) ==
    /\ pc' = "aborted"
    /\ error' = e
    /\ UNCHANGED <<call_vars, n, num_signatures, sk, keys, i, attestations, message,
                   signature, salt, enc_s, s1, msg_point, calls, built, stdout>>

\* sk = SecretKey(n)
NewSecretKey ==
    /\ pc = "main"
    /\ \E key \in SecretKeys(n) : sk' = key
    /\ keys' = keys + 1
    /\ pc' = "loop"
    /\ UNCHANGED <<call_vars, n, num_signatures, i, attestations, message, signature, salt,
                   enc_s, s1, msg_point, calls, signed, built, stdout, error>>

\* next iteration: generate_attestation(sk, message #i); sk.sign returns
SignReturns ==
    /\ pc = "loop"
    /\ i < num_signatures
    /\ message' = Message(i)
    /\ signed' = Append(signed, Message(i))
    /\ \E sig \in SignaturesOut :
          /\ signature' = sig
          /\ calls' = <<[fn |-> "sign", message |-> Message(i), ret |-> sig]>>
    /\ salt' = <<>>
    /\ enc_s' = <<>>
    /\ s1' = <<>>
    /\ msg_point' = <<>>
    /\ pc' = "slice"
    /\ UNCHANGED <<call_vars, n, num_signatures, sk, keys, i, attestations, built, stdout, error>>

\* next iteration: sk.sign raises
SignRaises ==
    /\ pc = "loop"
    /\ i < num_signatures
    /\ signed' = Append(signed, Message(i))
    /\ Propagate("SignError")

\* the two slices of the signature
Slice ==
    /\ pc = "slice"
    /\ salt' = SaltOf(signature)
    /\ enc_s' = EncOf(signature)
    /\ pc' = "decompress"
    /\ UNCHANGED <<call_vars, n, num_signatures, sk, keys, i, attestations, message, signature,
                   s1, msg_point, calls, signed, built, stdout, error>>

DecompressCall(ret) ==
    [fn |-> "decompress", payload |-> enc_s,
     slen |-> sk.sig_bytelen - HEAD_LEN - SALT_LEN, n |-> sk.n, ret |-> ret]

\* s1 = decompress(enc_s, sk.sig_bytelen - HEAD_LEN - SALT_LEN, sk.n)
DecompressReturns ==
    /\ pc = "decompress"
    /\ \E vec \in DecompressOut(sk.n) :
          /\ s1' = vec
          /\ calls' = Append(calls, DecompressCall(vec))
    /\ pc' = "hash"
    /\ UNCHANGED <<call_vars, n, num_signatures, sk, keys, i, attestations, message, signature,
                   salt, enc_s, msg_point, signed, built, stdout, error>>

DecompressRaises ==
    /\ pc = "decompress"
    /\ UNCHANGED signed
    /\ Propagate("DecodeError")

HashCall(ret) ==
    [fn |-> "hash_to_point", message |-> message, salt |-> salt, ret |-> ret]

\* msg_point = sk.hash_to_point(message, salt)
HashReturns ==
    /\ pc = "hash"
    /\ \E point \in HashToPointOut(sk.n) :
          /\ msg_point' = point
          /\ calls' = Append(calls, HashCall(point))
    /\ pc' = "return"
    /\ UNCHANGED <<call_vars, n, num_signatures, sk, keys, i, attestations, message, signature,
                   salt, enc_s, s1, signed, built, stdout, error>>

HashRaises ==
    /\ pc = "hash"
    /\ UNCHANGED signed
    /\ Propagate("HashError")

\* the record is returned and collected; the locals are gone
Return ==
    /\ pc = "return"
    /\ attestations' = Collect(attestations, Record(sk, s1, msg_point))
    /\ built' = Append(built, [message |-> message, decompressed |-> s1,
                               record |-> Record(sk, s1, msg_point)])
    /\ i' = i + 1
    /\ NoLocals
    /\ calls' = <<>>
    /\ pc' = "loop"
    /\ UNCHANGED <<call_vars, n, num_signatures, sk, keys, signed, stdout, error>>

\* the comprehension is exhausted: print(format_args(attestations, args.n))
PrintArgs ==
    /\ pc = "loop"
    /\ i >= num_signatures
    /\ stdout' = Append(stdout, format_args(attestations, n))
    /\ pc' = "done"
    /\ UNCHANGED <<call_vars, n, num_signatures, sk, keys, i, attestations, message, signature,
                   salt, enc_s, s1, msg_point, calls, signed, built, error>>

NoCall ==
    /\ fa_pc = "idle" /\ fa_args = <<>> /\ fa_n = 0 /\ fa_ret = <<>>
    /\ fb_args = <<>> /\ fb_n = 0 /\ fb_ret = <<>>

Init ==
    /\ pc = "main"
    /\ n \in Dims
    /\ num_signatures \in 0..MaxSigs
    /\ sk = NoKey
    /\ keys = 0
    /\ i = 0
    /\ attestations = <<>>
    /\ message = <<>>
    /\ signature = <<>>
    /\ salt = <<>>
    /\ enc_s = <<>>
    /\ s1 = <<>>
    /\ msg_point = <<>>
    /\ calls = <<>>
    /\ signed = <<>>
    /\ built = <<>>
    /\ stdout = <<>>
    /\ error = "none"
    /\ NoCall

Next ==
    \/ NewSecretKey
    \/ SignReturns
    \/ SignRaises
    \/ Slice
    \/ DecompressReturns
    \/ DecompressRaises
    \/ HashReturns
    \/ HashRaises
    \/ Return
    \/ PrintArgs

Spec == Init /\ [][Next]_vars

-----------------------------------------------------------------------------
(* Direct calls of format_args on arbitrary records *)

\* vectors of a record: empty, or two coefficients (a zero, a large one)
Vectors == {<<>>, <<0, 12288>>}

UniformRecords == [s1 : Vectors, pk : Vectors, msg_point : Vectors]

\* records of one-element vectors
SingleRecords ==
    { [s1 |-> <<0>>, pk |-> <<1>>, msg_point |-> <<255>>],
      [s1 |-> <<3>>, pk |-> <<>>, msg_point |-> <<0, 0, 16>>] }

\* records with a negative coefficient, one per field
NegRecords ==
    { [s1 |-> <<-1>>, pk |-> <<0>>, msg_point |-> <<>>],
      [s1 |-> <<>>, pk |-> <<255, -12288>>, msg_point |-> <<0>>],
      [s1 |-> <<0>>, pk |-> <<>>, msg_point |-> <<-255, 12288>>] }

Records == UniformRecords \cup SingleRecords \cup NegRecords

ArgLists == UNION {[1..k -> Records] : k \in 0..MaxRecs}

\* the dimension argument of a direct call
FormatDims == {0, 1, 2, 512}

\* the two lists of a compared pair of calls
PairRecords ==
    { [s1 |-> <<>>, pk |-> <<>>, msg_point |-> <<>>],
      [s1 |-> <<1>>, pk |-> <<>>, msg_point |-> <<>>],
      [s1 |-> <<>>, pk |-> <<1>>, msg_point |-> <<>>],
      [s1 |-> <<>>, pk |-> <<>>, msg_point |-> <<1>>],
      [s1 |-> <<0>>, pk |-> <<>>, msg_point |-> <<>>] }
PairLists == UNION {[1..k -> PairRecords] : k \in 0..MaxPairRecs}
PairDims == {0, 1}

\* the script itself is not running
NoScript ==
    /\ pc = "direct"
    /\ n = 0
    /\ num_signatures = 0
    /\ sk = NoKey
    /\ keys = 0
    /\ i = 0
    /\ attestations = <<>>
    /\ message = <<>>
    /\ signature = <<>>
    /\ salt = <<>>
    /\ enc_s = <<>>
    /\ s1 = <<>>
    /\ msg_point = <<>>
    /\ calls = <<>>
    /\ signed = <<>>
    /\ built = <<>>
    /\ stdout = <<>>
    /\ error = "none"

\* fa_ret = format_args(fa_args, fa_n)
CallFormatArgs ==
    /\ fa_pc = "ready"
    /\ fa_ret' = format_args(fa_args, fa_n)
    /\ fa_pc' = "returned"
    /\ UNCHANGED <<script_vars, fa_args, fa_n, fb_args, fb_n, fb_ret>>

\* fb_ret = format_args(fb_args, fb_n)
CallFormatArgsAgain ==
    /\ fa_pc = "returned"
    /\ fb_ret' = format_args(fb_args, fb_n)
    /\ fa_pc' = "both"
    /\ UNCHANGED <<script_vars, fa_args, fa_n, fa_ret, fb_args, fb_n>>

InitFormat ==
    /\ NoScript
    /\ fa_pc = "ready"
    /\ fa_args \in ArgLists
    /\ fa_n \in FormatDims
    /\ fa_ret = <<>>
    /\ fb_args = <<>> /\ fb_n = 0 /\ fb_ret = <<>>

NextFormat == CallFormatArgs

SpecFormat == InitFormat /\ [][NextFormat]_vars

InitPair ==
    /\ NoScript
    /\ fa_pc = "ready"
    /\ fa_args \in PairLists
    /\ fa_n \in PairDims
    /\ fa_ret = <<>>
    /\ fb_args \in PairLists
    /\ fb_n \in PairDims
    /\ fb_ret = <<>>

NextPair ==
    \/ CallFormatArgs
    \/ CallFormatArgsAgain

SpecPair == InitPair /\ [][NextPair]_vars

-----------------------------------------------------------------------------
(* The reader of the serialized array that the properties refer to *)

Range(f) == {f[k] : k \in DOMAIN f}

RECURSIVE QuoteFrom(_, _)
\* position of the first quote of text at or after k, Len(text) + 1 if none
QuoteFrom(text, k) ==
    IF k > Len(text) \/ text[k] = "\"" THEN k ELSE QuoteFrom(text, k + 1)

RECURSIVE StringsFrom(_, _)
StringsFrom(text, k) ==
    LET open == QuoteFrom(text, k)
        close == QuoteFrom(text, open + 1)
    IN IF close > Len(text) THEN <<>>
       ELSE <<SubSeq(text, open + 1, close - 1)>> \o StringsFrom(text, close + 1)

\* the strings of a JSON array of strings
JsonStrings(text) == StringsFrom(text, 1)

HexDigitSet == Range(HexDigit)

DigitValueOf == [c \in HexDigitSet |-> CHOOSE d \in 0..15 : HexDigit[d + 1] = c]

DigitValue(c) == DigitValueOf[c]

RECURSIVE DigitsValue(_)
DigitsValue(ds) ==
    IF ds = <<>> THEN 0
    ELSE 16 * DigitsValue(SubSeq(ds, 1, Len(ds) - 1)) + DigitValue(ds[Len(ds)])

IsHexNumber(str) ==
    LET body == IF str # <<>> /\ str[1] = "-" THEN Tail(str) ELSE str
    IN /\ Len(body) >= 3
       /\ body[1] = "0"
       /\ body[2] = "x"
       /\ \A k \in 3..Len(body) : body[k] \in HexDigitSet

\* the integer a hex string denotes
ReadInt(str) ==
    IF str[1] = "-" THEN -DigitsValue(SubSeq(str, 4, Len(str)))
    ELSE DigitsValue(SubSeq(str, 3, Len(str)))

NotRead == [ok |-> FALSE, recs |-> <<>>, dim |-> -1, whole |-> FALSE]

RECURSIVE ReadVectors(_, _, _, _)
\* m times from position p: a length, then that many elements
ReadVectors(xs, p, m, acc) ==
    IF m <= 0 THEN [ok |-> TRUE, vecs |-> acc, next |-> p]
    ELSE IF p > Len(xs) THEN [ok |-> FALSE, vecs |-> acc, next |-> p]
    ELSE IF xs[p] < 0 \/ p + xs[p] > Len(xs) THEN [ok |-> FALSE, vecs |-> acc, next |-> p]
    ELSE ReadVectors(xs, p + xs[p] + 1, m - 1, Append(acc, SubSeq(xs, p + 1, p + xs[p])))

\* the records and the final element, from the vectors read
Assemble(xs, r) ==
    IF ~r.ok \/ r.next > Len(xs) THEN NotRead
    ELSE [ok |-> TRUE,
          recs |-> [j \in 1..xs[1] |->
                       [s1 |-> r.vecs[3 * j - 2], pk |-> r.vecs[3 * j - 1],
                        msg_point |-> r.vecs[3 * j]]],
          dim |-> xs[r.next],
          whole |-> r.next = Len(xs)]

\* element 0 is the count k; then three vectors per record; then the final
\* element; whole is whether nothing is left after it
ReadInts(xs) == Assemble(xs, ReadVectors(xs, 2, 3 * xs[1], <<>>))

ReadStrings(strs) ==
    IF strs = <<>> \/ \E k \in 1..Len(strs) : ~IsHexNumber(strs[k])
    THEN NotRead
    ELSE ReadInts([k \in 1..Len(strs) |-> ReadInt(strs[k])])

ReadArgs(text) == ReadStrings(JsonStrings(text))

Vecs(rec) == <<rec.s1, rec.pk, rec.msg_point>>

NonNegative(args) ==
    \A r \in 1..Len(args) : \A v \in 1..3 : \A k \in 1..Len(Vecs(args[r])[v]) :
        Vecs(args[r])[v][k] >= 0

RECURSIVE SumLens(_)
SumLens(args) ==
    IF args = <<>> THEN 0
    ELSE 3 + Len(Head(args).s1) + Len(Head(args).pk) + Len(Head(args).msg_point)
         + SumLens(Tail(args))

-----------------------------------------------------------------------------
(* Properties *)

InCall == pc \in {"slice", "decompress", "hash", "return"}

\* C1: for records of non-negative integers and n >= 0, reading the output as
\* a count k, then k times three length-prefixed vectors, then one final
\* element, gives back the records in order, uses up the array, and reads n.
C1_RoundTrip ==
    (fa_pc = "returned" /\ NonNegative(fa_args) /\ fa_n >= 0) =>
        ReadArgs(fa_ret) = [ok |-> TRUE, recs |-> fa_args, dim |-> fa_n, whole |-> TRUE]

C1_Witness ==
    /\ fa_pc = "returned"
    /\ Len(fa_args) = 2
    /\ fa_args[1] = [s1 |-> <<3>>, pk |-> <<>>, msg_point |-> <<0, 0, 16>>]
    /\ fa_args[2] = [s1 |-> <<>>, pk |-> <<0, 12288>>, msg_point |-> <<>>]
    /\ fa_n = 0
    /\ ReadArgs(fa_ret).recs = fa_args

\* C2: every returned record's s1 is as long as the decompressed vector, and
\* each s1[k] is in 0..Q-1 and congruent to the decompressed value modulo Q.
C2_CanonicalS1 ==
    \A j \in 1..Len(built) :
        LET raw == built[j].decompressed
            red == built[j].record.s1
        IN /\ Len(red) = Len(raw)
           /\ \A k \in 1..Len(raw) :
                /\ 0 <= red[k]
                /\ red[k] < 12289
                /\ \E m \in -2..2 : red[k] - raw[k] = m * 12289

C2_Witness ==
    /\ Len(built) >= 1
    /\ built[1].decompressed = <<-12290, 12290>>
    /\ built[1].record.s1 = <<12288, 1>>

\* C3: a signature shorter than HEAD_LEN + SALT_LEN ends the call with
\* MalformedSignature: no salt shorter than SALT_LEN is produced, and neither
\* decompress nor hash_to_point is called on the truncated slices.
C3_ShortSignatureFails ==
    (calls # <<>> /\ Len(calls[1].ret) < HEAD_LEN + SALT_LEN) =>
        /\ \A c \in 1..Len(calls) : calls[c].fn = "sign"
        /\ pc \in {"hash", "return"} => Len(salt) = SALT_LEN
        /\ pc = "aborted" => error = "MalformedSignature"

\* C4: for n > 0 the output's element 0 is hex(k) and its last element is
\* hex(n); for k = 0 the output is exactly ["0x0", hex(n)].
C4_CountFirstDimLast ==
    (fa_pc = "returned" /\ fa_n > 0) =>
        LET strs == JsonStrings(fa_ret)
        IN /\ Len(strs) >= 2
           /\ strs[1] = <<"0", "x", HexDigit[Len(fa_args) + 1]>>
           /\ strs[Len(strs)] = hex(fa_n)
           /\ fa_n = 512 => strs[Len(strs)] = <<"0", "x", "2", "0", "0">>
           /\ (fa_args = <<>> /\ fa_n = 512) =>
                 fa_ret = <<"[", "\"", "0", "x", "0", "\"", ",", " ",
                            "\"", "0", "x", "2", "0", "0", "\"", "]">>
           /\ fa_args = <<>> =>
                 fa_ret = <<"[", "\"", "0", "x", "0", "\"", ",", " ", "\"">>
                          \o hex(fa_n) \o <<"\"", "]">>

C4_Witness ==
    /\ fa_pc = "returned"
    /\ fa_args = <<>>
    /\ fa_n = 512
    /\ JsonStrings(fa_ret) = << <<"0", "x", "0">>, <<"0", "x", "2", "0", "0">> >>

\* C5: two record lists of non-negative vectors that differ give different
\* outputs, whatever the two dimension arguments are.
C5_Injective ==
    (fa_pc = "both" /\ fa_args # fb_args) => fa_ret # fb_ret

C5_Witness ==
    /\ fa_pc = "both"
    /\ fa_n # fb_n
    /\ fa_args = << [s1 |-> <<1>>, pk |-> <<>>, msg_point |-> <<>>] >>
    /\ fb_args = << [s1 |-> <<>>, pk |-> <<1>>, msg_point |-> <<>>] >>
    /\ fa_ret # fb_ret

\* C6: format_args does not return when a vector holds a negative integer:
\* no returned output contains the encoding of a negative number.
C6_NegativeRejected ==
    (fa_pc = "returned" /\ ~NonNegative(fa_args)) => "-" \notin Range(fa_ret)

\* C7: within one generate_attestation, sign is called once; hash_to_point
\* gets the signed message and the bytes signature[HEAD_LEN:HEAD_LEN+SALT_LEN]
\* of that call's signature; decompress gets signature[HEAD_LEN+SALT_LEN:];
\* the record's s1 and msg_point come from these two calls.
C7_OneSignature ==
    /\ InCall => /\ Len(signed) = i + 1
                 /\ signed[i + 1] = message
                 /\ calls # <<>>
                 /\ signature = calls[1].ret
    /\ \A c \in 1..Len(calls) :
          LET call == calls[c]
              sig == calls[1].ret
          IN /\ (call.fn = "sign") = (c = 1)
             /\ call.fn = "decompress" =>
                   /\ c = 2
                   /\ Len(call.payload) =
                         (IF Len(sig) > HEAD_LEN + SALT_LEN
                          THEN Len(sig) - HEAD_LEN - SALT_LEN ELSE 0)
                   /\ \A k \in 1..Len(call.payload) :
                         call.payload[k] = sig[HEAD_LEN + SALT_LEN + k]
             /\ call.fn = "hash_to_point" =>
                   /\ c = 3
                   /\ call.message = calls[1].message
                   /\ Len(call.salt) =
                         (IF Len(sig) >= HEAD_LEN + SALT_LEN THEN SALT_LEN
                          ELSE IF Len(sig) > HEAD_LEN THEN Len(sig) - HEAD_LEN
                          ELSE 0)
                   /\ \A k \in 1..Len(call.salt) : call.salt[k] = sig[HEAD_LEN + k]
    /\ pc = "return" =>
          /\ Len(calls) = 3
          /\ s1 = calls[2].ret
          /\ msg_point = calls[3].ret

C7_Witness ==
    /\ pc = "return"
    /\ Len(signature) = HEAD_LEN + SALT_LEN + MaxPayload
    /\ calls[3].salt = SubSeq(signature, HEAD_LEN + 1, HEAD_LEN + SALT_LEN)
    /\ calls[3].salt # SubSeq(signature, 1, SALT_LEN)
    /\ calls[3].message = Message(i)

\* C8: the array is printed only after all k attestations are built; a
\* failure while building attestation i ends the run with that error, no
\* later message is signed, and nothing is printed.
C8_NoPartialOutput ==
    /\ stdout # <<>> =>
          /\ pc = "done"
          /\ error = "none"
          /\ Len(stdout) = 1
          /\ Len(attestations) = num_signatures
          /\ Len(built) = num_signatures
          /\ Len(signed) = num_signatures
    /\ (pc = "loop" /\ i >= num_signatures) => Len(built) = num_signatures
    /\ error # "none" <=> pc = "aborted"
    /\ pc = "aborted" =>
          /\ stdout = <<>>
          /\ Len(signed) = i + 1
          /\ Len(attestations) = i
          /\ error = (CASE Len(calls) = 0 -> "SignError"
                        [] Len(calls) = 1 -> "DecodeError"
                        [] OTHER -> "HashError")
          /\ ~ENABLED Next

C8_Witness ==
    /\ pc = "aborted"
    /\ error = "HashError"
    /\ i = 0
    /\ num_signatures = 2
    /\ signed = <<Message(0)>>
    /\ stdout = <<>>

\* C9: messages #0 .. #(k-1) are signed in increasing order with one key of
\* dimension n; k records are returned, record j built from message #j; the
\* printed array holds the records' sections in that order.
C9_OrderPreserved ==
    /\ keys <= 1
    /\ pc \notin {"main", "direct"} => (keys = 1 /\ sk.n = n)
    /\ \A j \in 1..Len(signed) :
          signed[j] = <<"m", "e", "s", "s", "a", "g", "e", " ", "#",
                        HexDigit[j]>>
    /\ Len(attestations) = Len(built)
    /\ \A j \in 1..Len(built) :
          /\ built[j].message = signed[j]
          /\ attestations[j] = built[j].record
    /\ pc = "done" =>
          /\ Len(attestations) = num_signatures
          /\ ReadArgs(stdout[1]) =
                [ok |-> TRUE, recs |-> [j \in 1..Len(built) |-> built[j].record],
                 dim |-> n, whole |-> TRUE]

C9_Witness ==
    /\ pc = "done"
    /\ num_signatures = 2
    /\ Len(attestations) = 2
    /\ attestations[1] # attestations[2]
    /\ ReadArgs(stdout[1]).recs = attestations

====
